---- MODULE Spec2Model ----
(***************************************************************************)
(* A model of plan.Plan.Calculate (plan/plan.go): the reconciliation of a  *)
(* current and a desired list of DNS endpoints into Create / UpdateOld /   *)
(* UpdateNew / Delete lists.  Endpoints live on a heap and are referred to *)
(* by pointer, as in the Go code, so that in-place writes to an endpoint's *)
(* label map are visible through every list that holds the pointer.        *)
(***************************************************************************)
EXTENDS Integers, Sequences, FiniteSets, TLC

(* ------------------------------ bounds -------------------------------- *)

\* number of endpoints the caller has allocated before the first Calculate
NumEndpoints == 2
\* number of Calculate calls made by the control loop
MaxCalls == 2

(* ----------------------------- basic values ---------------------------- *)

\* endpoint.OwnerLabelKey
OwnerLabelKey == "owner"

\* the nil *endpoint.Endpoint
NilPtr == 0

RecordTypeA == "A"
RecordTypeAAAA == "AAAA"
RecordTypeCNAME == "CNAME"
RecordTypeTXT == "TXT"

\* a nil map[string]string and a non-nil one; m is the map's content
NilLabels == [isNil |-> TRUE, m |-> <<>>]
EmptyLabels == [isNil |-> FALSE, m |-> <<>>]
OwnedBy(o) == [isNil |-> FALSE, m |-> (OwnerLabelKey :> o)]

\* labels[key] with Go's two-value form: ok is false when the key is absent
\* (also on a nil map), and the value read is then the empty string
HasLabel(labels, key) == key \in DOMAIN labels.m
LabelGet(labels, key) == IF key \in DOMAIN labels.m THEN labels.m[key] ELSE ""
\* labels[key] = v on a non-nil map
LabelSet(labels, key, v) ==
    [isNil |-> FALSE,
     m |-> [k \in (DOMAIN labels.m) \cup {key} |-> IF k = key THEN v ELSE labels.m[k]]]

\* endpoint.TTL: unconfigured is a state of its own
TTLUnconfigured == [configured |-> FALSE, value |-> 0]
TTLOf(n) == [configured |-> TRUE, value |-> n]
IsConfigured(ttl) == ttl.configured

\* endpoint.Targets.Same: equality as sets, not by position
Range(s) == {s[i] : i \in 1..Len(s)}
Same(a, b) == Range(a) = Range(b)

(* ------------------------- normalizeDNSName ---------------------------- *)
\* a DNS name is a sequence of one-character strings

ToLowerChar(c) == CASE c = "A" -> "a" [] c = "B" -> "b" [] OTHER -> c
ToLower(s) == [i \in 1..Len(s) |-> ToLowerChar(s[i])]

RECURSIVE TrimLeft(_)
TrimLeft(s) == IF Len(s) > 0 /\ Head(s) = " " THEN TrimLeft(Tail(s)) ELSE s
RECURSIVE TrimRight(_)
TrimRight(s) ==
    IF Len(s) > 0 /\ s[Len(s)] = " " THEN TrimRight(SubSeq(s, 1, Len(s) - 1)) ELSE s
TrimSpace(s) == TrimRight(TrimLeft(s))
HasSuffixDot(s) == Len(s) > 0 /\ s[Len(s)] = "."

normalizeDNSName(dnsName) ==
    LET s == TrimSpace(ToLower(dnsName))
    IN  IF HasSuffixDot(s) THEN s ELSE Append(s, ".")

(* --------------------------- CompareBoolean ---------------------------- *)

\* strconv.ParseBool: the accepted spellings
ParsesTrue(s) == s \in {"1", "t", "T", "TRUE", "true", "True"}
ParsesFalse(s) == s \in {"0", "f", "F", "FALSE", "false", "False"}
ParseBoolOr(s, defaultValue) ==
    IF s = "" THEN defaultValue
    ELSE IF ParsesTrue(s) THEN TRUE
    ELSE IF ParsesFalse(s) THEN FALSE
    ELSE defaultValue

CompareBoolean(defaultValue, name, current, previous) ==
    ParseBoolOr(previous, defaultValue) = ParseBoolOr(current, defaultValue)

\* Plan.PropertyComparator: nil, or CompareBoolean bound to a default
NilComparator == [isNil |-> TRUE, defaultValue |-> FALSE]
BooleanComparator(d) == [isNil |-> FALSE, defaultValue |-> d]
CallComparator(cmp, name, previous, current) ==
    CompareBoolean(cmp.defaultValue, name, previous, current)

(* ---------------------------- domain filter ---------------------------- *)

\* endpoint.DomainFilterInterface: nil, or a predicate on names given by the
\* set of normalized names it matches; all is the match-everything filter
NilDomainFilter == [isNil |-> TRUE, all |-> FALSE, names |-> {}]
MatchAllDomainFilters == [isNil |-> FALSE, all |-> TRUE, names |-> {}]
DomainFilterOf(S) == [isNil |-> FALSE, all |-> FALSE, names |-> S]
Match(domainFilter, dnsName) ==
    domainFilter.all \/ normalizeDNSName(dnsName) \in domainFilter.names

(* ------------------------- filterRecordsForPlan ------------------------ *)

IsManagedRecord(record, managedRecords) ==
    \E i \in 1..Len(managedRecords) : managedRecords[i] = record

\* records are pointers into the heap h; the order of the survivors is kept
filterRecordsForPlan(h, records, domainFilter, managedRecords) ==
    LET Keep(r) == /\ Match(domainFilter, h[r].DNSName)
                   /\ IsManagedRecord(h[r].RecordType, managedRecords)
    IN  SelectSeq(records, Keep)

(* ------------------------------ planTable ------------------------------ *)

\* &planTableRow{}
EmptyRow == [current |-> NilPtr, candidates |-> <<>>]

newPlanKey(h, e) ==
    [dnsName |-> normalizeDNSName(h[e].DNSName),
     setIdentifier |-> h[e].SetIdentifier,
     recordType |-> h[e].RecordType]

\* t.rows[key] after newPlanKey has created the row when it was absent
RowAt(rows, key) == IF key \in DOMAIN rows THEN rows[key] ELSE EmptyRow

addCurrent(rows, h, e) ==
    LET key == newPlanKey(h, e)
    IN  [k \in (DOMAIN rows) \cup {key} |->
            IF k = key THEN [RowAt(rows, key) EXCEPT !.current = e] ELSE rows[k]]

addCandidate(rows, h, e) ==
    LET key == newPlanKey(h, e)
    IN  [k \in (DOMAIN rows) \cup {key} |->
            IF k = key
            THEN [RowAt(rows, key) EXCEPT !.candidates = Append(@, e)]
            ELSE rows[k]]

RECURSIVE AddCurrents(_, _, _)
AddCurrents(rows, h, es) ==
    IF es = <<>> THEN rows ELSE AddCurrents(addCurrent(rows, h, Head(es)), h, Tail(es))

RECURSIVE AddCandidates(_, _, _)
AddCandidates(rows, h, es) ==
    IF es = <<>> THEN rows
    ELSE AddCandidates(addCandidate(rows, h, Head(es)), h, Tail(es))

\* newPlanTable followed by the two loops of Calculate that fill it
BuildTable(h, plan, domainFilter) ==
    AddCandidates(
        AddCurrents(<<>>, h,
            filterRecordsForPlan(h, plan.Current, domainFilter, plan.ManagedRecords)),
        h,
        filterRecordsForPlan(h, plan.Desired, domainFilter, plan.ManagedRecords))

(* --------------------------- conflict resolver ------------------------- *)

\* a stable total order on target values and, by position, on target lists
TargetOrder == <<"1.1.1.1", "2.2.2.2", "3.3.3.3">>
RankOf(t) == CHOOSE i \in 1..Len(TargetOrder) : TargetOrder[i] = t

RECURSIVE TargetsLess(_, _)
TargetsLess(a, b) ==
    IF b = <<>> THEN FALSE
    ELSE IF a = <<>> THEN TRUE
    ELSE IF RankOf(Head(a)) # RankOf(Head(b)) THEN RankOf(Head(a)) < RankOf(Head(b))
    ELSE TargetsLess(Tail(a), Tail(b))

RECURSIVE MinFrom(_, _, _)
MinFrom(h, candidates, min) ==
    IF candidates = <<>> THEN min
    ELSE MinFrom(h, Tail(candidates),
                 IF min = NilPtr \/ TargetsLess(h[Head(candidates)].Targets, h[min].Targets)
                 THEN Head(candidates) ELSE min)

ResolveCreate(h, candidates) == MinFrom(h, candidates, NilPtr)

ResolveUpdate(h, current, candidates) ==
    LET same == {i \in 1..Len(candidates) :
                    h[candidates[i]].Targets = h[current].Targets}
    IN  IF same # {}
        THEN candidates[CHOOSE i \in same : \A j \in same : i <= j]
        ELSE ResolveCreate(h, candidates)

(* -------------------------- change predicates -------------------------- *)

targetChanged(desired, current) == ~Same(desired.Targets, current.Targets)

\* variant: the TTLs are compared although the desired one is not configured
shouldUpdateTTLUnconfigured(desired, current) ==
    desired.RecordTTL # current.RecordTTL

shouldUpdateTTL(desired, current) ==
    IF ~IsConfigured(desired.RecordTTL) THEN FALSE
    ELSE desired.RecordTTL # current.RecordTTL

\* desiredProperties[name] after the loop over desired.ProviderSpecific:
\* a later entry of the same name overwrites an earlier one
LastNamed(props, name) ==
    LET idx == {i \in 1..Len(props) : props[i].Name = name}
    IN  props[CHOOSE i \in idx : \A j \in idx : j <= i]

shouldUpdateProviderSpecific(plan, desired, current) ==
    \E i \in 1..Len(current.ProviderSpecific) :
        LET c == current.ProviderSpecific[i]
            present == \E j \in 1..Len(desired.ProviderSpecific) :
                          desired.ProviderSpecific[j].Name = c.Name
            dValue == IF present
                      THEN LastNamed(desired.ProviderSpecific, c.Name).Value
                      ELSE ""
        IN  IF ~plan.PropertyComparator.isNil
            THEN ~CallComparator(plan.PropertyComparator, c.Name, c.Value, dValue)
            ELSE c.Value # dValue

(* ----------------------------- inheritOwner ---------------------------- *)

\* variant: an owner label that to already carries is kept
inheritOwnerKeepsLabel(h, from, to) ==
    IF HasLabel(h[to].Labels, OwnerLabelKey) THEN h
    ELSE [h EXCEPT ![to].Labels =
            LabelSet(@, OwnerLabelKey, LabelGet(h[from].Labels, OwnerLabelKey))]

\* writes through both pointers: a nil label map of either endpoint becomes
\* an empty one, then to's owner label takes the value read from from's
inheritOwner(h, from, to) ==
    LET h1 == IF h[to].Labels.isNil THEN [h EXCEPT ![to].Labels = EmptyLabels] ELSE h
        h2 == IF h1[from].Labels.isNil
              THEN [h1 EXCEPT ![from].Labels = EmptyLabels] ELSE h1
    IN  [h2 EXCEPT ![to].Labels =
            LabelSet(@, OwnerLabelKey, LabelGet(h2[from].Labels, OwnerLabelKey))]

(* --------------------------- filterOwnedRecords ------------------------ *)

\* variant: the lookup's value is tested without its ok
filterOwnedRecordsNoOk(h, ownerID, ownerIDOld, migrate, eps) ==
    LET ownerIDs == {ownerID} \cup (IF migrate THEN {ownerIDOld} ELSE {})
        Owned(ep) == LabelGet(h[ep].Labels, OwnerLabelKey) \in ownerIDs
    IN  SelectSeq(eps, Owned)

filterOwnedRecords(h, ownerID, ownerIDOld, migrate, eps) ==
    LET ownerIDs == {ownerID} \cup (IF migrate THEN {ownerIDOld} ELSE {})
        Owned(ep) == /\ HasLabel(h[ep].Labels, OwnerLabelKey)
                     /\ LabelGet(h[ep].Labels, OwnerLabelKey) \in ownerIDs
    IN  SelectSeq(eps, Owned)

(* -------------------------------- policies ----------------------------- *)

\* &Changes{}
EmptyChanges == [Create |-> <<>>, UpdateOld |-> <<>>, UpdateNew |-> <<>>, Delete |-> <<>>]

\* Policy.Apply for the policies of the chain: sync keeps everything,
\* upsert-only drops the deletions, create-only keeps the creations only,
\* and no-create stands for a policy that removes entries from Create
PolicyKinds == {"sync", "upsert-only", "create-only", "no-create"}
Apply(pol, changes) ==
    CASE pol = "sync" -> changes
      [] pol = "upsert-only" -> [changes EXCEPT !.Delete = <<>>]
      [] pol = "create-only" -> [EmptyChanges EXCEPT !.Create = changes.Create]
      [] pol = "no-create" -> [changes EXCEPT !.Create = <<>>]

RECURSIVE ApplyPolicies(_, _)
ApplyPolicies(policies, changes) ==
    IF policies = <<>> THEN changes
    ELSE ApplyPolicies(Tail(policies), Apply(Head(policies), changes))

(* -------------------------------- state -------------------------------- *)

VARIABLES
    heap,     \* the endpoints, by pointer (1..Len(heap))
    p,        \* the Plan that Calculate is called on
    pc,       \* "ready": before a call; "returned"; "panicked"
    calls,    \* Calculate calls made so far
    result,   \* the Plan returned by the last call
    rows,     \* t.rows of the last call
    raw,      \* changes of the last call after its loop over the rows
    pre,      \* p and heap as they were when the last call began
    snap,     \* the Changes returned by the last call, by value
    prevSnap, \* the Changes returned by the call before it, by value
    fromExec  \* the last call was made on the plan the executor handed back

vars == <<heap, p, pc, calls, result, rows, raw, pre, snap, prevSnap, fromExec>>

(* ------------------------- the loop over t.rows ------------------------ *)

\* endpoint.Endpoint.DeepCopy of h[e] with owner written into its labels:
\* the copy of a nil label map is nil, and the write to it panics
CanRelabelCopy(h, e) == ~h[e].Labels.isNil
RelabelledCopy(h, e, owner) ==
    [h[e] EXCEPT !.Labels = LabelSet(@, OwnerLabelKey, owner)]

\* variant: the current owner is compared with the new owner
ShouldMigrateFromNewOwner(plan, h, row) ==
    /\ plan.TXTOwnerMigrate
    /\ row.current # NilPtr
    /\ Len(row.candidates) > 0
    /\ LabelGet(h[row.current].Labels, OwnerLabelKey) = plan.TXTOwner

\* the condition of the owner-migration branch
ShouldMigrate(plan, h, row) ==
    /\ plan.TXTOwnerMigrate
    /\ row.current # NilPtr
    /\ Len(row.candidates) > 0
    /\ LabelGet(h[row.current].Labels, OwnerLabelKey) = plan.TXTOwnerOld

\* the condition under which the update branch emits a pair
ShouldUpdate(plan, update, current) ==
    \/ shouldUpdateTTL(update, current)
    \/ targetChanged(update, current)
    \/ shouldUpdateProviderSpecific(plan, update, current)

\* variant: a creation for every row that has candidates
RowCreateWhenCandidates(h, row, changes) ==
    IF Len(row.candidates) > 0
    THEN [changes EXCEPT !.Create = Append(@, ResolveCreate(h, row.candidates))]
    ELSE changes

\* changes.Create after the first if of the loop body
RowCreate(h, row, changes) ==
    IF row.current = NilPtr
    THEN [changes EXCEPT !.Create = Append(@, ResolveCreate(h, row.candidates))]
    ELSE changes

\* changes.Delete after the second if of the loop body
RowDelete(h, row, changes) ==
    IF row.current # NilPtr /\ Len(row.candidates) = 0
    THEN [changes EXCEPT !.Delete = Append(@, row.current)]
    ELSE changes

\* variant: the current record is relabelled in place, without a copy
RowMigrateInPlace(plan, row, st) ==
    IF ~CanRelabelCopy(st.heap, row.current)
    THEN [st EXCEPT !.hasMig = TRUE, !.panicked = TRUE]
    ELSE [st EXCEPT
            !.hasMig = TRUE,
            !.heap = [@ EXCEPT ![row.current] =
                        RelabelledCopy(st.heap, row.current, plan.TXTOwner)],
            !.changes.UpdateNew = Append(@, row.current),
            !.changes.UpdateOld = Append(@, row.current)]

\* the migration branch: st is the state of the call (heap, changes, hasMig)
RowMigrate(plan, row, st) ==
    IF ~CanRelabelCopy(st.heap, row.current)
    THEN [st EXCEPT !.hasMig = TRUE, !.panicked = TRUE]
    ELSE LET update == Len(st.heap) + 1
         IN  [st EXCEPT
                !.hasMig = TRUE,
                !.heap = Append(@, RelabelledCopy(st.heap, row.current, plan.TXTOwner)),
                !.changes.UpdateNew = Append(@, update),
                !.changes.UpdateOld = Append(@, row.current)]

\* the update branch
RowUpdate(plan, row, st) ==
    IF row.current # NilPtr /\ Len(row.candidates) > 0
    THEN LET update == ResolveUpdate(st.heap, row.current, row.candidates)
         IN  IF ShouldUpdate(plan, st.heap[update], st.heap[row.current])
             THEN [st EXCEPT
                    !.heap = inheritOwner(@, row.current, update),
                    !.changes.UpdateNew = Append(@, update),
                    !.changes.UpdateOld = Append(@, row.current)]
             ELSE st
    ELSE st

\* one iteration of the loop
ProcessRow(plan, row, st) ==
    LET st2 == [st EXCEPT
                 !.changes = RowDelete(st.heap, row, RowCreate(st.heap, row, st.changes))]
    IN  IF ShouldMigrate(plan, st2.heap, row)
        THEN RowMigrate(plan, row, st2)
        ELSE RowUpdate(plan, row, st2)

\* the loop, over the keys in the order the map iteration yields them (the
\* singleton set names the state after one iteration, so that it is
\* computed once)
RECURSIVE ProcessRows(_, _, _, _)
ProcessRows(plan, t, order, st) ==
    IF order = <<>> \/ st.panicked THEN st
    ELSE CHOOSE r \in {ProcessRows(plan, t, Tail(order), next) :
                          next \in {ProcessRow(plan, t[Head(order)], st)}} : TRUE

\* the orders in which a Go map with key set S may be iterated
Orders(S) ==
    {o \in [1..Cardinality(S) -> S] : \A i, j \in 1..Cardinality(S) : o[i] = o[j] => i = j}

(* ------------------------------ Calculate ------------------------------ *)

\* changes.Create after the missing records have been appended
AppendMissing(h, plan, changes) ==
    IF Len(plan.Missing) > 0
    THEN [changes EXCEPT !.Create = @ \o
            filterRecordsForPlan(h, plan.Missing, plan.DomainFilter,
                                 Append(plan.ManagedRecords, RecordTypeTXT))]
    ELSE changes

\* variant: the missing records are appended before the policies run
PolicedChangesMissingFirst(h, plan, changes) ==
    ApplyPolicies(plan.Policies, AppendMissing(h, plan, changes))

\* the policy chain, then the missing records
PolicedChanges(h, plan, changes) ==
    AppendMissing(h, plan, ApplyPolicies(plan.Policies, changes))

\* the Changes of the returned Plan
FinalChanges(h, plan, changes) ==
    [Create |-> changes.Create,
     UpdateNew |-> filterOwnedRecords(h, plan.TXTOwner, plan.TXTOwnerOld,
                                      plan.TXTOwnerMigrate, changes.UpdateNew),
     UpdateOld |-> filterOwnedRecords(h, plan.TXTOwner, plan.TXTOwnerOld,
                                      plan.TXTOwnerMigrate, changes.UpdateOld),
     Delete |-> filterOwnedRecords(h, plan.TXTOwner, plan.TXTOwnerOld,
                                   plan.TXTOwnerMigrate, changes.Delete)]

\* the zero value of Plan, and the Plan literal that Calculate returns
ZeroPlan ==
    [Current |-> <<>>, Desired |-> <<>>, Missing |-> <<>>, Policies |-> <<>>,
     Changes |-> EmptyChanges, DomainFilter |-> NilDomainFilter,
     PropertyComparator |-> NilComparator, ManagedRecords |-> <<>>,
     TXTOwner |-> "", HasMig |-> FALSE, TXTOwnerMigrate |-> FALSE, TXTOwnerOld |-> ""]

ReturnedPlan(h, plan, changes, hasMig) ==
    [ZeroPlan EXCEPT
        !.Current = plan.Current,
        !.Desired = plan.Desired,
        !.Changes = FinalChanges(h, plan, changes),
        !.ManagedRecords = <<RecordTypeA, RecordTypeAAAA, RecordTypeCNAME>>,
        !.HasMig = hasMig]

\* p.DomainFilter after the nil check at the top of Calculate
DefaultedFilter(plan) ==
    IF plan.DomainFilter.isNil THEN MatchAllDomainFilters ELSE plan.DomainFilter

\* a list of endpoint pointers, by value
Deref(h, eps) == [i \in 1..Len(eps) |-> h[eps[i]]]
DerefChanges(h, ch) ==
    [Create |-> Deref(h, ch.Create), UpdateOld |-> Deref(h, ch.UpdateOld),
     UpdateNew |-> Deref(h, ch.UpdateNew), Delete |-> Deref(h, ch.Delete)]

Calculate ==
    /\ pc \in {"ready", "returned"}
    /\ calls < MaxCalls
    /\ \E plan \in {[p EXCEPT !.DomainFilter = DefaultedFilter(p)]} :
       \E t \in {BuildTable(heap, plan, plan.DomainFilter)} :
       \E order \in Orders(DOMAIN t) :
       \E st \in {ProcessRows(plan, t, order,
                    [heap |-> heap, changes |-> EmptyChanges,
                     hasMig |-> FALSE, panicked |-> FALSE])} :
       \E changes \in {PolicedChanges(st.heap, plan, st.changes)} :
       \E ret \in {ReturnedPlan(st.heap, plan, changes, st.hasMig)} :
            /\ p' = plan
            /\ heap' = st.heap
            /\ rows' = t
            /\ pre' = [p |-> p, heap |-> heap]
            /\ calls' = calls + 1
            /\ fromExec' = (pc = "ready" /\ calls > 0)
            /\ IF st.panicked
               THEN /\ pc' = "panicked"
                    /\ UNCHANGED <<result, raw, snap, prevSnap>>
               ELSE /\ pc' = "returned"
                    /\ raw' = st.changes
                    /\ result' = ret
                    /\ prevSnap' = snap
                    /\ snap' = DerefChanges(st.heap, ret.Changes)

(* ------------------------------- executor ------------------------------ *)

Min(a, b) == IF a < b THEN a ELSE b
IndexOf(s, x) == CHOOSE i \in 1..Len(s) : s[i] = x /\ \A j \in 1..(i - 1) : s[j] # x

\* Current after the Changes have been executed: every Delete is removed,
\* every UpdateOld[i] is replaced by UpdateNew[i], every Create is added
ExecutedCurrent(current, ch) ==
    LET n == Min(Len(ch.UpdateOld), Len(ch.UpdateNew))
        olds == {ch.UpdateOld[i] : i \in 1..n}
        Kept(e) == e \notin Range(ch.Delete)
        kept == SelectSeq(current, Kept)
        replaced == [i \in 1..Len(kept) |->
                        IF kept[i] \in olds
                        THEN ch.UpdateNew[IndexOf(SubSeq(ch.UpdateOld, 1, n), kept[i])]
                        ELSE kept[i]]
    IN  replaced \o ch.Create

\* the control loop executes the returned Changes and builds the next Plan
\* from the new current state and the same desired state and settings
Execute ==
    /\ pc = "returned"
    /\ calls < MaxCalls
    /\ p' = [p EXCEPT !.Current = ExecutedCurrent(p.Current, result.Changes)]
    /\ pc' = "ready"
    /\ UNCHANGED <<heap, calls, result, rows, raw, pre, snap, prevSnap, fromExec>>

Next == Calculate \/ Execute

(* --------------------------------- Init -------------------------------- *)

MkEndpoint(name, type, setIdentifier, targets, ttl, labels, props) ==
    [DNSName |-> name, RecordType |-> type, SetIdentifier |-> setIdentifier,
     Targets |-> targets, RecordTTL |-> ttl, Labels |-> labels,
     ProviderSpecific |-> props]

MkSettings(owner, ownerOld, migrate, filter, cmp, managed, policies) ==
    [TXTOwner |-> owner, TXTOwnerOld |-> ownerOld, TXTOwnerMigrate |-> migrate,
     DomainFilter |-> filter, PropertyComparator |-> cmp,
     ManagedRecords |-> managed, Policies |-> policies]

\* the pointers that a list holds, in allocation order
RECURSIVE Ascending(_)
Ascending(S) ==
    IF S = {} THEN <<>>
    ELSE LET x == CHOOSE y \in S : \A z \in S : y <= z
         IN  <<x>> \o Ascending(S \ {x})

ListOf(slots, list) == Ascending({i \in DOMAIN slots : slots[i].list = list})

\* the caller allocates NumEndpoints endpoints, puts each on one of the
\* Plan's lists, and fills in the settings
InitFrom(Slots, Settings) ==
    \E slots \in [1..NumEndpoints -> Slots], s \in Settings :
        /\ heap = [i \in 1..NumEndpoints |-> slots[i].ep]
        /\ p = [ZeroPlan EXCEPT
                  !.Current = ListOf(slots, "Current"),
                  !.Desired = ListOf(slots, "Desired"),
                  !.Missing = ListOf(slots, "Missing"),
                  !.Policies = s.Policies,
                  !.DomainFilter = s.DomainFilter,
                  !.PropertyComparator = s.PropertyComparator,
                  !.ManagedRecords = s.ManagedRecords,
                  !.TXTOwner = s.TXTOwner,
                  !.TXTOwnerMigrate = s.TXTOwnerMigrate,
                  !.TXTOwnerOld = s.TXTOwnerOld]
        /\ pc = "ready"
        /\ calls = 0
        /\ result = ZeroPlan
        /\ rows = <<>>
        /\ raw = EmptyChanges
        /\ pre = [p |-> p, heap |-> heap]
        /\ snap = EmptyChanges
        /\ prevSnap = EmptyChanges
        /\ fromExec = FALSE

NameA == <<"a">>
NameADot == <<"A", ".">>
NameB == <<" ", "b">>
ManagedDefault == <<RecordTypeA, RecordTypeAAAA, RecordTypeCNAME>>

\* owners and owner labels: current records with every kind of label map,
\* desired records with a changed or an unchanged target
OwnerSlots ==
    {[list |-> "Current",
      ep |-> MkEndpoint(n, RecordTypeA, "", <<"1.1.1.1">>, TTLUnconfigured, l, <<>>)] :
        n \in {NameA, NameB},
        l \in {NilLabels, EmptyLabels, OwnedBy(""), OwnedBy("me"), OwnedBy("old")}}
    \cup
    {[list |-> "Desired",
      ep |-> MkEndpoint(n, RecordTypeA, "", t, TTLUnconfigured, NilLabels, <<>>)] :
        n \in {NameA, NameB}, t \in {<<"1.1.1.1">>, <<"2.2.2.2">>}}
    \cup
    {[list |-> "Desired",
      ep |-> MkEndpoint(NameA, RecordTypeA, "", t, TTLUnconfigured,
                        OwnedBy("other"), <<>>)] :
        t \in {<<"1.1.1.1">>, <<"2.2.2.2">>}}

OwnerSettings ==
    {MkSettings(o, "", FALSE, NilDomainFilter, NilComparator, ManagedDefault, <<>>) :
        o \in {"", "me"}}
    \cup
    {MkSettings(o, old, TRUE, NilDomainFilter, NilComparator, ManagedDefault, <<>>) :
        o \in {"", "me"}, old \in {"", "old"}}

\* change detection: one name, owned by the operator, with every kind of
\* TTL, target list and provider-specific property list
TTLs == {TTLUnconfigured, TTLOf(60), TTLOf(300)}
Prop(n, v) == [Name |-> n, Value |-> v]

DetectSlots ==
    {[list |-> "Current",
      ep |-> MkEndpoint(NameA, RecordTypeA, "", <<"1.1.1.1", "2.2.2.2">>, ttl,
                        OwnedBy("me"), ps)] :
        ttl \in {TTLUnconfigured, TTLOf(60)},
        ps \in {<<>>, <<Prop("proxied", "true")>>, <<Prop("proxied", "")>>}}
    \cup
    {[list |-> "Desired",
      ep |-> MkEndpoint(NameA, RecordTypeA, "", <<"1.1.1.1", "2.2.2.2">>, ttl,
                        EmptyLabels, <<>>)] : ttl \in TTLs}
    \cup
    {[list |-> "Desired",
      ep |-> MkEndpoint(NameA, RecordTypeA, "", t, TTLUnconfigured, EmptyLabels, <<>>)] :
        t \in {<<"2.2.2.2", "1.1.1.1">>, <<"1.1.1.1">>}}
    \cup
    {[list |-> "Desired",
      ep |-> MkEndpoint(NameA, RecordTypeA, "", <<"1.1.1.1", "2.2.2.2">>,
                        TTLUnconfigured, EmptyLabels, ps)] :
        ps \in {<<Prop("proxied", "1")>>, <<Prop("proxied", "false")>>,
                <<Prop("proxied", "false"), Prop("proxied", "true")>>,
                <<Prop("weight", "10")>>}}

DetectSettings ==
    {MkSettings("me", "", FALSE, NilDomainFilter, cmp, ManagedDefault, <<>>) :
        cmp \in {NilComparator, BooleanComparator(FALSE), BooleanComparator(TRUE)}}

\* keys, filters, policies and the missing list: names that normalize to the
\* same or to different keys, managed and unmanaged types, a set identifier
KeyRecord(n, ty, sid, t) ==
    MkEndpoint(n, ty, sid, t, TTLUnconfigured, OwnedBy("me"), <<>>)

KeySlots ==
    {[list |-> "Current", ep |-> e] :
        e \in {KeyRecord(NameA, RecordTypeA, "", <<"1.1.1.1">>),
               KeyRecord(NameADot, RecordTypeA, "", <<"1.1.1.1">>),
               KeyRecord(NameB, RecordTypeA, "", <<"1.1.1.1">>),
               KeyRecord(NameA, RecordTypeA, "s", <<"1.1.1.1">>),
               KeyRecord(NameA, RecordTypeTXT, "", <<"1.1.1.1">>)}}
    \cup
    {[list |-> "Desired", ep |-> e] :
        e \in {KeyRecord(NameA, RecordTypeA, "", <<"2.2.2.2">>),
               KeyRecord(NameADot, RecordTypeA, "", <<"1.1.1.1">>),
               KeyRecord(NameB, RecordTypeA, "", <<"1.1.1.1">>),
               KeyRecord(NameA, RecordTypeA, "s", <<"1.1.1.1">>),
               KeyRecord(NameA, RecordTypeTXT, "", <<"1.1.1.1">>)}}
    \cup
    {[list |-> "Missing", ep |-> e] :
        e \in {KeyRecord(NameA, RecordTypeA, "", <<"1.1.1.1">>),
               KeyRecord(NameA, RecordTypeTXT, "", <<"1.1.1.1">>),
               KeyRecord(NameB, RecordTypeTXT, "", <<"1.1.1.1">>),
               KeyRecord(NameA, "NS", "", <<"1.1.1.1">>)}}

KeySettings ==
    {MkSettings("me", "", FALSE, f, NilComparator, ManagedDefault, pol) :
        f \in {NilDomainFilter, DomainFilterOf({normalizeDNSName(NameA)})},
        pol \in {<<>>, <<"no-create">>, <<"upsert-only">>, <<"create-only", "sync">>}}

Init ==
    \/ InitFrom(OwnerSlots, OwnerSettings)
    \/ InitFrom(DetectSlots, DetectSettings)
    \/ InitFrom(KeySlots, KeySettings)

Spec == Init /\ [][Next]_vars

(* ------------------------ vocabulary of the claims --------------------- *)

Returned == pc = "returned"
Final == result.Changes

\* the owner identities the operator answers to during the last call
AcceptedOwners ==
    {pre.p.TXTOwner} \cup (IF pre.p.TXTOwnerMigrate THEN {pre.p.TXTOwnerOld} ELSE {})

\* the endpoint carries an owner label, and its value is an accepted owner
CarriesAcceptedOwner(e) ==
    /\ OwnerLabelKey \in DOMAIN heap[e].Labels.m
    /\ heap[e].Labels.m[OwnerLabelKey] \in AcceptedOwners

KeyOf(e) == newPlanKey(heap, e)

C2_Pairing ==
    (Returned /\ pre.p.Policies = <<>>) =>
        /\ Len(Final.UpdateOld) = Len(Final.UpdateNew)
        /\ \A i \in 1..Len(Final.UpdateOld) :
              KeyOf(Final.UpdateOld[i]) = KeyOf(Final.UpdateNew[i])

(* C3: after Calculate returns, the Plan it was called on and every record   *)
(* reachable from its Current and Desired lists are as they were before the  *)
(* call.                                                                     *)
C3_PureTransform ==
    Returned =>
        /\ p = pre.p
        /\ \A e \in Range(pre.p.Current) \cup Range(pre.p.Desired) :
              heap[e] = pre.heap[e]

(* C4: when the Changes of one Calculate have been executed against Current *)
(* and Calculate is called again with the new Current and the same Desired   *)
(* and settings, the second result has an empty Create, an empty Delete and  *)
(* no actionable update: UpdateNew holds nothing but records equal to the    *)
(* UpdateOld record at the same index.                                       *)
C4_Convergence ==
    (Returned /\ fromExec) =>
        /\ Final.Create = <<>>
        /\ Final.Delete = <<>>
        /\ Len(Final.UpdateNew) = Len(Final.UpdateOld)
        /\ \A i \in 1..Len(Final.UpdateNew) :
              heap[Final.UpdateNew[i]] = heap[Final.UpdateOld[i]]

(* C5 (as stated): a second Calculate on the same Plan returns Create,       *)
(* UpdateOld, UpdateNew and Delete lists equal to those of the first.        *)
C5_SameLists ==
    (Returned /\ calls >= 2 /\ ~fromExec) => snap = prevSnap

\* the number of times x occurs in the list s
Occurrences(s, x) == Cardinality({i \in 1..Len(s) : s[i] = x})
SameUpToOrder(s, t) ==
    /\ Len(s) = Len(t)
    /\ \A x \in Range(s) \cup Range(t) : Occurrences(s, x) = Occurrences(t, x)

(* C5 (amended): a second Calculate on the same Plan returns Create,         *)
(* UpdateOld, UpdateNew and Delete lists that hold the same records, each as *)
(* often, as those of the first; the order within a list may differ, since   *)
(* it follows the iteration order of the grouping table.                     *)
C5_SameListsUpToOrder ==
    (Returned /\ calls >= 2 /\ ~fromExec) =>
        /\ SameUpToOrder(snap.Create, prevSnap.Create)
        /\ SameUpToOrder(snap.UpdateOld, prevSnap.UpdateOld)
        /\ SameUpToOrder(snap.UpdateNew, prevSnap.UpdateNew)
        /\ SameUpToOrder(snap.Delete, prevSnap.Delete)

\* a second call on the same Plan whose first call took the update branch
\* for one key and created a record for another
C5_Witness ==
    /\ Returned /\ calls >= 2 /\ ~fromExec
    /\ Cardinality(DOMAIN rows) >= 2
    /\ Len(snap.Create) + Len(snap.UpdateNew) + Len(snap.Delete) >= 2

(* ------------------- the rows of the last call, by class --------------- *)

\* the settings and the records as the last call found them
Before(e) == pre.heap[e]
HasCurrent(k) == rows[k].current # NilPtr
HasCandidates(k) == rows[k].candidates # <<>>

\* the row's current record carries, or reads as, the prior owner identity
\* while migration is enabled
ReadsAsPriorOwner(k) ==
    /\ pre.p.TXTOwnerMigrate
    /\ HasCurrent(k) /\ HasCandidates(k)
    /\ LET l == Before(rows[k].current).Labels.m
       IN  (IF OwnerLabelKey \in DOMAIN l THEN l[OwnerLabelKey] ELSE "") = pre.p.TXTOwnerOld

\* the record the resolver picks for the row
Chosen(k) == ResolveUpdate(pre.heap, rows[k].current, rows[k].candidates)

\* the three predicates of the claim, on record values
TTLDiffers(new, old) == new.RecordTTL.configured /\ new.RecordTTL # old.RecordTTL
TargetsDiffer(new, old) ==
    \/ \E i \in 1..Len(new.Targets) : \A j \in 1..Len(old.Targets) : old.Targets[j] # new.Targets[i]
    \/ \E j \in 1..Len(old.Targets) : \A i \in 1..Len(new.Targets) : old.Targets[j] # new.Targets[i]
ValueOn(props, name) ==
    IF \E i \in 1..Len(props) : props[i].Name = name
    THEN LET last == CHOOSE i \in 1..Len(props) :
                        /\ props[i].Name = name
                        /\ \A j \in (i + 1)..Len(props) : props[j].Name # name
         IN  props[last].Value
    ELSE ""
ValuesDiffer(a, b) ==
    IF pre.p.PropertyComparator.isNil THEN a # b
    ELSE ParseBoolOr(a, pre.p.PropertyComparator.defaultValue)
            # ParseBoolOr(b, pre.p.PropertyComparator.defaultValue)
PropertiesDiffer(new, old) ==
    \E i \in 1..Len(old.ProviderSpecific) :
        ValuesDiffer(old.ProviderSpecific[i].Value,
                     ValueOn(new.ProviderSpecific, old.ProviderSpecific[i].Name))
SomePredicateFires(k) ==
    LET new == Before(Chosen(k))
        old == Before(rows[k].current)
    IN  TTLDiffers(new, old) \/ TargetsDiffer(new, old) \/ PropertiesDiffer(new, old)

ClassOf(k) ==
    CASE ~HasCurrent(k) -> "create"
      [] HasCurrent(k) /\ ~HasCandidates(k) -> "delete"
      [] ReadsAsPriorOwner(k) -> "migrate"
      [] HasCurrent(k) /\ HasCandidates(k) /\ ~ReadsAsPriorOwner(k)
            /\ SomePredicateFires(k) -> "update"
      [] OTHER -> "no-op"

\* what the raw changes hold for a key
CreatesOf(k) == {i \in 1..Len(raw.Create) : KeyOf(raw.Create[i]) = k}
DeletesOf(k) == {i \in 1..Len(raw.Delete) : KeyOf(raw.Delete[i]) = k}
PairsOf(k) == {i \in 1..Len(raw.UpdateOld) : KeyOf(raw.UpdateOld[i]) = k}
\* a pair of the migration branch: its new record was allocated by the call
IsMigrationPair(i) == raw.UpdateNew[i] > Len(pre.heap)

(* C6: every grouping key of the table has a current record or a candidate   *)
(* and falls into exactly one class; the raw changes hold one Create for a   *)
(* create key, one Delete for a delete key, one update pair for an update or *)
(* a migrate key, nothing else for these and nothing at all for a no-op key, *)
(* and no entry for a key that is not in the table.                          *)
C6_Partition ==
    Returned =>
        /\ Len(raw.UpdateOld) = Len(raw.UpdateNew)
        /\ \A k \in DOMAIN rows :
              /\ HasCurrent(k) \/ HasCandidates(k)
              /\ Cardinality(CreatesOf(k)) = (IF ClassOf(k) = "create" THEN 1 ELSE 0)
              /\ Cardinality(DeletesOf(k)) = (IF ClassOf(k) = "delete" THEN 1 ELSE 0)
              /\ Cardinality(PairsOf(k)) =
                    (IF ClassOf(k) \in {"update", "migrate"} THEN 1 ELSE 0)
              /\ \A i \in PairsOf(k) :
                    /\ KeyOf(raw.UpdateNew[i]) = k
                    /\ IsMigrationPair(i) <=> ClassOf(k) = "migrate"
        /\ \A e \in Range(raw.Create) \cup Range(raw.Delete)
                    \cup Range(raw.UpdateOld) \cup Range(raw.UpdateNew) :
              KeyOf(e) \in DOMAIN rows

\* a key with two candidates and no current record next to a key with a
\* current record only
C6_Witness ==
    /\ Returned
    /\ \E k \in DOMAIN rows : ~HasCurrent(k) /\ Len(rows[k].candidates) >= 2

(* C7: for a row with a current record and a candidate that does not take   *)
(* the migration branch, the raw changes hold the pair (resolver's choice,   *)
(* current) if and only if the chosen record's TTL is configured and differs *)
(* from current's, or its targets are not set-equal to current's, or a       *)
(* provider-specific property of current differs from the same-named one of  *)
(* the chosen record (from the empty string when it has none); otherwise     *)
(* they hold nothing for the row.                                            *)
C7_UpdateIffPredicate ==
    Returned =>
        \A k \in DOMAIN rows :
            (HasCurrent(k) /\ HasCandidates(k) /\ ~ReadsAsPriorOwner(k)) =>
                /\ SomePredicateFires(k) <=>
                      \E i \in 1..Len(raw.UpdateOld) :
                          /\ raw.UpdateOld[i] = rows[k].current
                          /\ raw.UpdateNew[i] = Chosen(k)
                /\ ~SomePredicateFires(k) =>
                      CreatesOf(k) \cup DeletesOf(k) \cup PairsOf(k) = {}

\* rows where only one thing differs, and rows where a difference does not count
C7_Witness ==
    /\ Returned
    /\ \E k \in DOMAIN rows :
          /\ HasCurrent(k) /\ HasCandidates(k) /\ ~ReadsAsPriorOwner(k)
          /\ ~SomePredicateFires(k)
          /\ Before(Chosen(k)).RecordTTL # Before(rows[k].current).RecordTTL
          /\ Before(Chosen(k)).ProviderSpecific # Before(rows[k].current).ProviderSpecific

\* the row's current record carries an owner label equal to the prior owner
\* identity while migration is enabled, and the row has a candidate
CarriesPriorOwner(k) ==
    /\ pre.p.TXTOwnerMigrate
    /\ HasCurrent(k) /\ HasCandidates(k)
    /\ OwnerLabelKey \in DOMAIN Before(rows[k].current).Labels.m
    /\ Before(rows[k].current).Labels.m[OwnerLabelKey] = pre.p.TXTOwnerOld

\* r with its owner label set to owner and nothing else changed
WithOwner(r, owner) ==
    [r EXCEPT !.Labels.m =
        [l \in (DOMAIN r.Labels.m) \cup {OwnerLabelKey} |->
            IF l = OwnerLabelKey THEN owner ELSE r.Labels.m[l]]]

(* C8: with migration enabled, a row whose current record carries the prior  *)
(* owner identity and that has a candidate yields exactly one update pair:   *)
(* its old record is the current record, unmodified, and its new record is a *)
(* fresh copy of it that differs in the owner label only, which is the       *)
(* configured owner identity, whatever the candidates hold; with an empty    *)
(* policy chain both records are in the returned lists; HasMig is true, and  *)
(* HasMig is false when no pair came from the migration branch.              *)
C8_Migration ==
    Returned =>
        /\ \A k \in DOMAIN rows :
              CarriesPriorOwner(k) =>
                  /\ Cardinality(PairsOf(k)) = 1
                  /\ \A i \in PairsOf(k) :
                        /\ raw.UpdateOld[i] = rows[k].current
                        /\ heap[raw.UpdateOld[i]] = Before(rows[k].current)
                        /\ raw.UpdateNew[i] \notin 1..Len(pre.heap)
                        /\ heap[raw.UpdateNew[i]] =
                              WithOwner(Before(rows[k].current), pre.p.TXTOwner)
                        /\ pre.p.Policies = <<>> =>
                              /\ raw.UpdateOld[i] \in Range(Final.UpdateOld)
                              /\ raw.UpdateNew[i] \in Range(Final.UpdateNew)
                  /\ result.HasMig
        /\ result.HasMig <=> \E i \in 1..Len(raw.UpdateNew) : IsMigrationPair(i)

\* a migrated row whose candidate has the targets of the current record, and
\* one whose candidate has other targets
C8_Witness ==
    /\ Returned
    /\ \E k \in DOMAIN rows :
          /\ CarriesPriorOwner(k)
          /\ pre.p.TXTOwner # pre.p.TXTOwnerOld
          /\ Before(Chosen(k)).Targets # Before(rows[k].current).Targets

\* labels[OwnerLabelKey] as the code reads it: the empty string when absent
OwnerOf(e) ==
    IF OwnerLabelKey \in DOMAIN heap[e].Labels.m
    THEN heap[e].Labels.m[OwnerLabelKey] ELSE ""

KeptMissing ==
    LET filter == IF pre.p.DomainFilter.isNil THEN MatchAllDomainFilters
                  ELSE pre.p.DomainFilter
        Kept(e) ==
            /\ Match(filter, Before(e).DNSName)
            /\ \/ Before(e).RecordType = RecordTypeTXT
               \/ \E i \in 1..Len(pre.p.ManagedRecords) :
                     pre.p.ManagedRecords[i] = Before(e).RecordType
    IN  SelectSeq(pre.p.Missing, Kept)

(* C10: the returned Create list is what the policy chain, applied in order, *)
(* leaves of the raw Create list, followed by every missing record whose     *)
(* name matches the domain filter and whose type is managed or TXT, each as  *)
(* an entry of its own; a missing record that fails the filter is not in it. *)
C10_MissingAppended ==
    Returned =>
        /\ Final.Create = ApplyPolicies(pre.p.Policies, raw).Create \o KeptMissing
        /\ \A e \in Range(pre.p.Missing) :
              Occurrences(Final.Create, e) = Occurrences(KeptMissing, e)

\* a missing record is created although a policy of the chain has emptied
\* the Create list
C10_Witness ==
    /\ Returned
    /\ Len(raw.Create) > 0
    /\ "no-create" \in Range(pre.p.Policies)
    /\ Final.Create = KeptMissing
    /\ Len(KeptMissing) = 1
    /\ Len(pre.p.Missing) = 1

====
